---- MODULE Spec2Model ----
(***************************************************************************)
(* Sales-Analysis-Project: the CSV -> SQLite ingestion pipeline of          *)
(* data_loader.py, the upload step and the query surface of app.py.         *)
(*                                                                          *)
(* A table (a CSV file once parsed, a DataFrame, a SQLite table) is a       *)
(* record [cols, fmt, rows]:                                                *)
(*   cols  the set of column names;                                         *)
(*   fmt   how the cells of the Date column are held:                       *)
(*           "none"      the table has no Date column                       *)
(*           "iso"       text 'YYYY-MM-DD'                                  *)
(*           "mdy"       text 'MM/DD/YYYY'                                  *)
(*           "bad"       text that is no date                               *)
(*           "datetime"  pandas datetime64 (in memory only)                 *)
(*           "ts"        text 'YYYY-MM-DD HH:MM:SS', what to_sql writes for *)
(*                       a datetime64 column                                *)
(*   rows  the rows in file / rowid order, run-length encoded: a row with   *)
(*         n |-> k stands for k consecutive rows with these cell values.    *)
(* A Date cell is the calendar date it denotes, as the number yyyymmdd.     *)
(* Weekly_Sales is an integer number of mills (1/1000 of a currency unit).  *)
(***************************************************************************)
EXTENDS Integers, Sequences, FiniteSets, TLC

VARIABLES
    db,        \* the SQLite file's tables: table name -> stored table
    idx,       \* the names of the indexes in the SQLite file
    dbExists,  \* whether data/walmart_sales.db exists on disk
    last       \* what the last run (loader run or page execution) did and reported

vars == <<db, idx, dbExists, last>>

----------------------------------------------------------------------------
(* Generic helpers *)

Range(s) == {s[i] : i \in 1..Len(s)}

----------------------------------------------------------------------------
(* Tables *)

\* csv_files of load_csv_files, in dict order
CsvTables == <<"train", "test", "features", "stores">>
TableNames == Range(CsvTables)

TrainCols == {"Store", "Dept", "Date", "Weekly_Sales", "IsHoliday"}
TestCols == {"Store", "Dept", "Date", "IsHoliday"}
FeaturesCols == {"Store", "Date", "Temperature", "Fuel_Price", "CPI", "Unemployment"}
StoresCols == {"Store", "Type", "Size"}

\* a table that does not exist in the SQLite file
NoTable == [exists |-> FALSE, cols |-> {}, fmt |-> "none", rows |-> <<>>]

\* number of rows of a table: len(df), SELECT COUNT(*)
RECURSIVE CountFrom(_, _, _)
CountFrom(rows, lo, hi) ==
    IF lo > hi THEN 0
    ELSE IF lo = hi THEN rows[lo].n
    ELSE CountFrom(rows, lo, (lo + hi) \div 2) + CountFrom(rows, (lo + hi) \div 2 + 1, hi)

CountRows(rows) == CountFrom(rows, 1, Len(rows))

\* the indexes of create_indexes, in the order it creates them
IndexDefs == <<
    [name |-> "idx_train_store",      table |-> "train",    on |-> {"Store"}],
    [name |-> "idx_train_dept",       table |-> "train",    on |-> {"Dept"}],
    [name |-> "idx_train_date",       table |-> "train",    on |-> {"Date"}],
    [name |-> "idx_train_store_dept", table |-> "train",    on |-> {"Store", "Dept"}],
    [name |-> "idx_features_store",   table |-> "features", on |-> {"Store"}],
    [name |-> "idx_features_date",    table |-> "features", on |-> {"Date"}],
    [name |-> "idx_stores_type",      table |-> "stores",   on |-> {"Type"}] >>

IndexNames == {IndexDefs[i].name : i \in 1..Len(IndexDefs)}

\* the indexes SQLite holds on table t; DROP TABLE t drops them with the table
IndexesOn(t) == {IndexDefs[i].name : i \in {j \in 1..Len(IndexDefs) : IndexDefs[j].table = t}}

----------------------------------------------------------------------------
(* CSV ingestion: pandas calls *)

NoFrame == [cols |-> {}, fmt |-> "none", rows |-> <<>>]

\* a file of the data directory, or an uploaded byte stream
AbsentFile == [st |-> "absent", df |-> NoFrame]
MalformedFile == [st |-> "malformed", df |-> NoFrame]
CsvFile(df) == [st |-> "ok", df |-> df]

\* a read_csv that reads a malformed file as an empty table
ReadCsvRaises_Lenient(file) == FALSE

\* pd.read_csv raises on a malformed file and otherwise returns the parsed
\* table with its text cells as they are in the file
ReadCsvRaises(file) == file.st # "ok"
ReadCsv(file) == file.df

\* a to_datetime that turns text that is no date into NaT
ToDatetimeRaises_Never(df) == FALSE

\* pd.to_datetime(df['Date']) raises on text that is no date (and KeyError when
\* there is no Date column) and otherwise gives a datetime64 column; a
\* column without cells has no text to raise on
ToDatetimeRaises(df) == df.fmt = "none" \/ (df.fmt = "bad" /\ df.rows # <<>>)
ToDatetime(df) == [df EXCEPT !.fmt = "datetime"]

\* DataFrame.to_sql: the table as SQLite stores it; a datetime64 column is
\* written as 'YYYY-MM-DD HH:MM:SS' text, a text column as it is
ToSql(df) ==
    [exists |-> TRUE, cols |-> df.cols,
     fmt |-> IF df.fmt = "datetime" THEN "ts" ELSE df.fmt,
     rows |-> df.rows]

\* pd.read_sql_query("SELECT * FROM t"): the stored table as a DataFrame
FromSql(tbl) == [cols |-> tbl.cols, fmt |-> tbl.fmt, rows |-> tbl.rows]

\* a write that fails leaves the table as it was (the failure came before the
\* DROP), absent (after the DROP, which SQLite commits at once), or existing
\* and empty (after CREATE TABLE, the INSERT rolled back)
FailureOutcomes == {"unchanged", "absent", "empty"}
NoFail == [at |-> "none", how |-> "unchanged"]

AfterFailedWrite(old, df, how) ==
    CASE how = "unchanged" -> old
      [] how = "absent" -> NoTable
      [] OTHER -> [ToSql(df) EXCEPT !.rows = <<>>]

----------------------------------------------------------------------------
(* data_loader.py *)

\* WalmartDataLoader.load_csv_files over the files of the data directory:
\* the datasets dict as a sequence of [name, df] in insertion order, and what
\* was printed
RECURSIVE LoadFrom(_, _)
LoadFrom(files, i) ==
    IF i > Len(CsvTables) THEN [datasets |-> <<>>, errors |-> {}, missing |-> {}]
    ELSE LET t == CsvTables[i]
             f == files[t]
             rest == LoadFrom(files, i + 1)
             df == ReadCsv(f)
         IN IF f.st = "absent"
            THEN [rest EXCEPT !.missing = @ \cup {t}]
            ELSE IF ReadCsvRaises(f) \/ ("Date" \in df.cols /\ ToDatetimeRaises(df))
            THEN [rest EXCEPT !.errors = @ \cup {t}]
            ELSE [rest EXCEPT !.datasets =
                    <<[name |-> t,
                       df |-> IF "Date" \in df.cols THEN ToDatetime(df) ELSE df]>> \o @]

\* a load that gives up every file when one of them cannot be read
load_csv_files_AllOrNone(files) ==
    LET r == LoadFrom(files, 1)
    IN IF r.errors = {} THEN r ELSE [r EXCEPT !.datasets = <<>>]

load_csv_files(files) == LoadFrom(files, 1)

DatasetNames(datasets) == {datasets[i].name : i \in 1..Len(datasets)}

\* a to_sql(name, if_exists='fail') that leaves a table that exists alone
ReplaceTable_KeepOld(store, name, df) ==
    IF store.db[name].exists THEN store
    ELSE [db |-> [store.db EXCEPT ![name] = ToSql(df)], idx |-> store.idx]

\* a to_sql(name, if_exists='append') with no DROP: the rows are added
ReplaceTable_Append(store, name, df) ==
    [db |-> [store.db EXCEPT ![name] = [ToSql(df) EXCEPT !.rows = store.db[name].rows \o @]],
     idx |-> store.idx]

\* DROP TABLE IF EXISTS name, then df.to_sql(name, if_exists='replace'): the
\* table holds the rows of df and nothing else; its indexes went with the
\* dropped table
ReplaceTable(store, name, df) ==
    [db |-> [store.db EXCEPT ![name] = ToSql(df)],
     idx |-> store.idx \ IndexesOn(name)]

\* the same write when it raises
FailedWrite(store, name, df, how) ==
    [db |-> [store.db EXCEPT ![name] = AfterFailedWrite(@, df, how)],
     idx |-> IF how = "unchanged" THEN store.idx ELSE store.idx \ IndexesOn(name)]

\* WalmartDataLoader.create_tables with an open connection; fail names the
\* table whose write raises, if any
RECURSIVE CreateFrom(_, _, _)
CreateFrom(store, datasets, fail) ==
    IF datasets = <<>> THEN [db |-> store.db, idx |-> store.idx, ok |-> TRUE]
    ELSE LET d == Head(datasets)
         IN IF fail.at = d.name
            THEN LET f == FailedWrite(store, d.name, d.df, fail.how)
                 IN [db |-> f.db, idx |-> f.idx, ok |-> FALSE]
            ELSE CreateFrom(ReplaceTable(store, d.name, d.df), Tail(datasets), fail)

\* a create_tables that returns True whatever happened
create_tables_AlwaysTrue(conn, store, datasets, fail) ==
    IF ~conn THEN [db |-> store.db, idx |-> store.idx, ok |-> TRUE]
    ELSE [CreateFrom(store, datasets, fail) EXCEPT !.ok = TRUE]

\* a create_tables that starts from an empty database file
create_tables_FreshFile(conn, store, datasets, fail) ==
    IF ~conn THEN [db |-> store.db, idx |-> store.idx, ok |-> FALSE]
    ELSE CreateFrom([db |-> [t \in TableNames |-> NoTable], idx |-> {}], datasets, fail)

\* a create_tables in one transaction: a failed write undoes the earlier ones
create_tables_Atomic(conn, store, datasets, fail) ==
    IF conn /\ CreateFrom(store, datasets, fail).ok
    THEN CreateFrom(store, datasets, fail)
    ELSE [db |-> store.db, idx |-> store.idx, ok |-> FALSE]

\* a create_tables that writes the tables and returns False all the same
create_tables_ReturnsFalse(conn, store, datasets, fail) ==
    IF ~conn THEN [db |-> store.db, idx |-> store.idx, ok |-> FALSE]
    ELSE [CreateFrom(store, datasets, fail) EXCEPT !.ok = FALSE]

\* WalmartDataLoader.create_tables: False and nothing done without a
\* connection
create_tables(conn, store, datasets, fail) ==
    IF ~conn THEN [db |-> store.db, idx |-> store.idx, ok |-> FALSE]
    ELSE CreateFrom(store, datasets, fail)

\* WalmartDataLoader.create_indexes: CREATE INDEX IF NOT EXISTS raises when the
\* table or a column is missing and the loop ends there; the indexes
\* created before stay (SQLite commits each CREATE INDEX at once)
RECURSIVE IndexFrom(_, _, _)
IndexFrom(tables, have, i) ==
    IF i > Len(IndexDefs) THEN [idx |-> have, ok |-> TRUE]
    ELSE LET d == IndexDefs[i]
         IN IF tables[d.table].exists /\ d.on \subseteq tables[d.table].cols
            THEN IndexFrom(tables, have \cup {d.name}, i + 1)
            ELSE [idx |-> have, ok |-> FALSE]

create_indexes(tables, have) == IndexFrom(tables, have, 1)

----------------------------------------------------------------------------
(* Limits written in the queries *)

TrainLimit == 10000      \* SELECT * FROM train LIMIT 10000
FeaturesLimit == 5000    \* SELECT * FROM features LIMIT 5000
TopStoresLimit == 10     \* Top 10 Stores: LIMIT 10
DeptLimit == 15          \* Department Performance: LIMIT 15

----------------------------------------------------------------------------
(* SQL and pandas aggregates over the rows of a table *)

\* a result cell: NULL, or a value
Null == <<>>
Val(v) == <<v>>

\* ROUND(x, 2) of SQLite on an amount in mills: to the nearest 10 mills,
\* a half away from zero
Round2(x) == IF x >= 0 THEN ((x + 5) \div 10) * 10 ELSE 0 - (((0 - x) + 5) \div 10) * 10

\* ROUND(s / c, 2) for a sum s in mills over c > 0 rows
RoundAvg2(s, c) ==
    IF s >= 0 THEN ((2 * s + 10 * c) \div (20 * c)) * 10
    ELSE 0 - ((2 * (0 - s) + 10 * c) \div (20 * c)) * 10

\* SUM(Weekly_Sales) as an exact number of mills (0 over no rows)
RECURSIVE SumFrom(_, _, _)
SumFrom(rows, lo, hi) ==
    IF lo > hi THEN 0
    ELSE IF lo = hi THEN rows[lo].Weekly_Sales * rows[lo].n
    ELSE SumFrom(rows, lo, (lo + hi) \div 2) + SumFrom(rows, (lo + hi) \div 2 + 1, hi)

SumSales(rows) == SumFrom(rows, 1, Len(rows))

\* the rows with r[col] = v, in order
RowsWith(rows, col, v) == SelectSeq(rows, LAMBDA r : r[col] = v)

\* the distinct values of a column
Distinct(rows, col) == {rows[i][col] : i \in 1..Len(rows)}

\* the rows without a limit
Limit_Off(rows, k) == rows

\* the first k rows: LIMIT k, DataFrame.head(k); a run is cut where the
\* limit falls inside it
RECURSIVE Limit(_, _)
Limit(rows, k) ==
    IF rows = <<>> \/ k <= 0 THEN <<>>
    ELSE IF Head(rows).n >= k THEN <<[Head(rows) EXCEPT !.n = k]>>
         ELSE <<Head(rows)>> \o Limit(Tail(rows), k - Head(rows).n)

\* the first k elements of a result
Take(s, k) == SubSeq(s, 1, IF Len(s) < k THEN Len(s) ELSE k)

\* strftime('%Y-%m', Date) on a stored Date cell: the month yyyymm of an
\* ISO date or timestamp text, NULL for any other text
Strftime(fmt, date) == IF fmt \in {"iso", "ts"} THEN Val(date \div 100) ELSE Null

\* how SQLite orders the text of a Date cell: 'MM/DD/YYYY' compares by
\* month, then day, then year
TextKey(fmt, date) ==
    IF fmt = "mdy"
    THEN ((date \div 100) % 100) * 1000000 + (date % 100) * 10000 + date \div 10000
    ELSE date

\* the elements of a finite set of integers, ascending
RECURSIVE Ascending(_)
Ascending(S) ==
    IF S = {} THEN <<>>
    ELSE LET m == CHOOSE x \in S : \A y \in S : x <= y
         IN <<m>> \o Ascending(S \ {m})

\* result rows ordered by total_sales DESC; rows with equal totals stay in
\* group-key order, the order GROUP BY produced them in
RECURSIVE OrderByTotalDesc(_)
OrderByTotalDesc(groups) ==
    IF groups = <<>> THEN <<>>
    ELSE LET best == CHOOSE i \in 1..Len(groups) :
                 /\ \A j \in 1..Len(groups) : groups[j].total_sales <= groups[i].total_sales
                 /\ \A j \in 1..(i - 1) : groups[j].total_sales < groups[i].total_sales
         IN <<groups[best]>> \o
            OrderByTotalDesc(SubSeq(groups, 1, best - 1) \o SubSeq(groups, best + 1, Len(groups)))

\* MIN(Date) / MAX(Date): the cell whose text sorts first / last, NULL over no rows
MinDate(tbl) ==
    IF tbl.rows = <<>> THEN Null
    ELSE LET D == Distinct(tbl.rows, "Date")
         IN Val(CHOOSE d \in D : \A e \in D : TextKey(tbl.fmt, d) <= TextKey(tbl.fmt, e))

MaxDate(tbl) ==
    IF tbl.rows = <<>> THEN Null
    ELSE LET D == Distinct(tbl.rows, "Date")
         IN Val(CHOOSE d \in D : \A e \in D : TextKey(tbl.fmt, d) >= TextKey(tbl.fmt, e))

\* ROUND(SUM(Weekly_Sales), 2), NULL over no rows
RoundSum(rows) == IF rows = <<>> THEN Null ELSE Val(Round2(SumSales(rows)))

\* a query raises when the table or a column it names is missing
Raises(tbl, cols) == ~tbl.exists \/ ~(cols \subseteq tbl.cols)
QueryError == [err |-> TRUE, rows |-> <<>>]
QueryRows(rows) == [err |-> FALSE, rows |-> rows]

(* The catalog of show_sql_interface, each query over the stored train table *)

BasicOverview(tbl) ==
    IF Raises(tbl, {"Store", "Dept", "Date", "Weekly_Sales"}) THEN QueryError
    ELSE QueryRows(<<[total_records |-> CountRows(tbl.rows),
                      unique_stores |-> Cardinality(Distinct(tbl.rows, "Store")),
                      unique_departments |-> Cardinality(Distinct(tbl.rows, "Dept")),
                      earliest_date |-> MinDate(tbl),
                      latest_date |-> MaxDate(tbl),
                      total_sales |-> RoundSum(tbl.rows),
                      avg_weekly_sales |->
                          IF tbl.rows = <<>> THEN Null
                          ELSE Val(RoundAvg2(SumSales(tbl.rows), CountRows(tbl.rows)))]>>)

\* GROUP BY Store that totals each distinct amount once
StoreGroups_DistinctAmounts(rows) ==
    LET keys == Ascending(Distinct(rows, "Store"))
    IN [i \in 1..Len(keys) |->
          LET g == RowsWith(rows, "Store", keys[i])
          IN [Store |-> keys[i],
              records |-> CountRows(g),
              total_sales |-> Round2(SumSales([j \in 1..Len(g) |-> [g[j] EXCEPT !.n = 1]])),
              avg_sales |-> RoundAvg2(SumSales(g), CountRows(g))]]

\* GROUP BY Store: one row per Store value that occurs, in Store order
StoreGroups(rows) ==
    LET keys == Ascending(Distinct(rows, "Store"))
    IN [i \in 1..Len(keys) |->
          LET g == RowsWith(rows, "Store", keys[i])
          IN [Store |-> keys[i],
              records |-> CountRows(g),
              total_sales |-> Round2(SumSales(g)),
              avg_sales |-> RoundAvg2(SumSales(g), CountRows(g))]]

TopStores(tbl) ==
    IF Raises(tbl, {"Store", "Weekly_Sales"}) THEN QueryError
    ELSE QueryRows(Take(OrderByTotalDesc(StoreGroups(tbl.rows)), TopStoresLimit))

\* GROUP BY Dept that also lists the department after each one that occurs
DeptGroups_Phantom(rows) ==
    LET keys == Ascending(Distinct(rows, "Dept") \cup {d + 1 : d \in Distinct(rows, "Dept")})
    IN [i \in 1..Len(keys) |->
          LET g == RowsWith(rows, "Dept", keys[i])
          IN [Dept |-> keys[i],
              records |-> CountRows(g),
              stores |-> Cardinality(Distinct(g, "Store")),
              total_sales |-> Round2(SumSales(g)),
              avg_sales |-> IF g = <<>> THEN 0 ELSE RoundAvg2(SumSales(g), CountRows(g))]]

\* GROUP BY Dept: one row per Dept value that occurs, in Dept order
DeptGroups(rows) ==
    LET keys == Ascending(Distinct(rows, "Dept"))
    IN [i \in 1..Len(keys) |->
          LET g == RowsWith(rows, "Dept", keys[i])
          IN [Dept |-> keys[i],
              records |-> CountRows(g),
              stores |-> Cardinality(Distinct(g, "Store")),
              total_sales |-> Round2(SumSales(g)),
              avg_sales |-> RoundAvg2(SumSales(g), CountRows(g))]]

DepartmentPerformance(tbl) ==
    IF Raises(tbl, {"Store", "Dept", "Weekly_Sales"}) THEN QueryError
    ELSE QueryRows(Take(OrderByTotalDesc(DeptGroups(tbl.rows)), DeptLimit))

\* GROUP BY strftime('%Y-%m', Date) ORDER BY month_year: the rows whose
\* Date text strftime cannot read form one group with month_year NULL,
\* which sorts first
MonthGroups(tbl) ==
    LET months == {m \in {Strftime(tbl.fmt, d) : d \in Distinct(tbl.rows, "Date")} : m # Null}
        keys == Ascending({m[1] : m \in months})
        unread == SelectSeq(tbl.rows, LAMBDA r : Strftime(tbl.fmt, r.Date) = Null)
        Group(key, g) ==
            [month_year |-> key,
             monthly_sales |-> Round2(SumSales(g)),
             avg_weekly_sales |-> RoundAvg2(SumSales(g), CountRows(g)),
             active_stores |-> Cardinality(Distinct(g, "Store"))]
    IN (IF unread = <<>> THEN <<>> ELSE <<Group(Null, unread)>>) \o
       [i \in 1..Len(keys) |->
          Group(Val(keys[i]),
                SelectSeq(tbl.rows, LAMBDA r : Strftime(tbl.fmt, r.Date) = Val(keys[i])))]

MonthlySalesTrend(tbl) ==
    IF Raises(tbl, {"Store", "Date", "Weekly_Sales"}) THEN QueryError
    ELSE QueryRows(MonthGroups(tbl))

HolidayImpact(tbl) ==
    IF Raises(tbl, {"IsHoliday", "Weekly_Sales"}) THEN QueryError
    ELSE LET keys == Ascending(Distinct(tbl.rows, "IsHoliday"))
         IN QueryRows([i \in 1..Len(keys) |->
              LET g == RowsWith(tbl.rows, "IsHoliday", keys[i])
              IN [IsHoliday |-> keys[i],
                  record_count |-> CountRows(g),
                  avg_sales |-> RoundAvg2(SumSales(g), CountRows(g)),
                  total_sales |-> Round2(SumSales(g))]])

CatalogNames == {"Basic Overview", "Top 10 Stores", "Department Performance",
                 "Monthly Sales Trend", "Holiday Impact"}

\* query_options[name] run against the store
Catalog(name, tables) ==
    CASE name = "Basic Overview" -> BasicOverview(tables["train"])
      [] name = "Top 10 Stores" -> TopStores(tables["train"])
      [] name = "Department Performance" -> DepartmentPerformance(tables["train"])
      [] name = "Monthly Sales Trend" -> MonthlySalesTrend(tables["train"])
      [] OTHER -> HolidayImpact(tables["train"])

\* WalmartDataLoader.run_basic_queries: the five validation queries in
\* order; what was printed before the first one that raised
run_basic_queries(tables) ==
    LET t == tables["train"]
        needs == <<{}, {"Store"}, {"Dept"}, {"Date"}, {"Weekly_Sales"}>>
        results == <<Val(CountRows(t.rows)),
                     Val(Cardinality(Distinct(t.rows, "Store"))),
                     Val(Cardinality(Distinct(t.rows, "Dept"))),
                     MinDate(t),
                     RoundSum(t.rows)>>
        bad == {i \in 1..Len(needs) : Raises(t, needs[i])}
        k == IF bad = {} THEN Len(needs)
             ELSE (CHOOSE i \in bad : \A j \in bad : i <= j) - 1
    IN [ok |-> bad = {}, printed |-> SubSeq(results, 1, k)]

\* WalmartDataLoader.get_table_info: the row count printed for every table
\* of sqlite_master
get_table_info(tables) ==
    {<<t, CountRows(tables[t].rows)>> : t \in {u \in TableNames : tables[u].exists}}

----------------------------------------------------------------------------
(* data_loader.main *)

NoValidation == [ok |-> FALSE, printed |-> <<>>]

NoFiles == [train |-> AbsentFile, test |-> AbsentFile, features |-> AbsentFile, stores |-> AbsentFile]

(* What the report of a run says about its ingestion *)

\* the files the run was given
BuildInput(l) ==
    IF l.op = "loader" THEN l.files ELSE IF l.op = "app" THEN l.ui.files ELSE NoFiles

\* the run wrote every table it set out to write
BuildOk(l) ==
    \/ l.op = "loader" /\ l.created = "ok"
    \/ l.op = "app" /\ l.page = "upload" /\ l.upload = "success"

\* the tables the run wrote
Written(l) ==
    IF l.op = "loader" /\ l.created = "ok" THEN l.loaded
    ELSE IF l.op = "app" THEN l.wrote ELSE {}

\* One run of data_loader.py over the files of the data directory.  connOk:
\* whether sqlite3.connect succeeds; fail: the table whose write raises.
\* queried: run_basic_queries and get_table_info were called.
LoaderMain(files, connOk, fail) ==
    LET loaded == load_csv_files(files)
        names == DatasetNames(loaded.datasets)
        created == create_tables(connOk, [db |-> db, idx |-> idx], loaded.datasets, fail)
        indexed == create_indexes(created.db, created.idx)
        report == [op |-> "loader", files |-> files, connected |-> connOk,
                   loaded |-> {}, errors |-> {}, missing |-> {},
                   created |-> "skipped", indexed |-> "skipped",
                   validation |-> NoValidation, info |-> {},
                   queried |-> FALSE, fail |-> fail,
                   completed |-> FALSE, exit |-> 1, closed |-> FALSE,
                   again |-> connOk /\ BuildOk(last) /\ BuildInput(last) = files]
    IN IF ~connOk
       THEN \* connect_db returned False: sys.exit(1)
            /\ last' = report
            /\ UNCHANGED <<db, idx, dbExists>>
       ELSE /\ fail.at \in names \cup {"none"}
            /\ dbExists' = TRUE
            /\ IF loaded.datasets = <<>>
               THEN \* no datasets: close, sys.exit(1)
                    /\ last' = [report EXCEPT !.errors = loaded.errors,
                                              !.missing = loaded.missing,
                                              !.closed = TRUE]
                    /\ UNCHANGED <<db, idx>>
               ELSE IF ~created.ok
               THEN \* create_tables returned False: close, sys.exit(1)
                    /\ db' = created.db
                    /\ idx' = created.idx
                    /\ last' = [report EXCEPT !.loaded = names,
                                              !.errors = loaded.errors,
                                              !.missing = loaded.missing,
                                              !.created = "failed",
                                              !.closed = TRUE]
               ELSE /\ db' = created.db
                    /\ idx' = indexed.idx
                    /\ last' = [report EXCEPT
                                  !.loaded = names,
                                  !.errors = loaded.errors,
                                  !.missing = loaded.missing,
                                  !.created = "ok",
                                  !.indexed = IF indexed.ok THEN "ok" ELSE "failed",
                                  !.validation = run_basic_queries(created.db),
                                  !.info = get_table_info(created.db),
                                  !.queried = TRUE,
                                  !.completed = TRUE,
                                  !.exit = 0,
                                  !.closed = TRUE]

----------------------------------------------------------------------------
(* app.py: SalesAnalysisApp *)

\* the shape of load_sample_data
SampleStores == 10       \* for store in range(1, 11)
SampleDepts == 20        \* for dept in range(1, 21)
SampleWeeks == 52        \* for date in dates[:52]
SampleStoreRows == 45    \* 'Store': range(1, 46)
SampleSales == 15000     \* nominal amount; the generated amounts are pseudo-random

\* load_sample_data: the generated train table, one run of SampleWeeks rows
\* per store and department (the weeks' dates and amounts are not told apart)
SampleTrain ==
    [cols |-> TrainCols, fmt |-> "datetime",
     rows |-> [i \in 1..(SampleStores * SampleDepts) |->
                 [Store |-> ((i - 1) \div SampleDepts) + 1,
                  Dept |-> ((i - 1) % SampleDepts) + 1,
                  Date |-> 20100207, Weekly_Sales |-> SampleSales,
                  IsHoliday |-> 0, n |-> SampleWeeks]]]

SampleStoresTable ==
    [cols |-> StoresCols, fmt |-> "none",
     rows |-> [i \in 1..SampleStoreRows |-> [Store |-> i, Type |-> 1, Size |-> 1, n |-> 1]]]

SampleFeatures ==
    [cols |-> FeaturesCols, fmt |-> "datetime",
     rows |-> [i \in 1..SampleStores |-> [Store |-> i, Date |-> 20100207, n |-> SampleWeeks]]]

SampleData ==
    [train |-> SampleTrain, stores |-> SampleStoresTable, features |-> SampleFeatures,
     is_real_data |-> FALSE]

\* SalesAnalysisApp.connect_db: connects, and sets data_loaded, when the
\* database file exists and sqlite3.connect does not raise
connect_db(exists, fail) == exists /\ fail.at # "connect"

\* SalesAnalysisApp.load_data: the three tables read from the store and
\* True, or the sample data and False when the file is missing or a read
\* or a Date conversion raises
load_data(tables, exists, fail) ==
    LET train == [FromSql(tables["train"]) EXCEPT !.rows = Limit(@, TrainLimit)]
        stores == FromSql(tables["stores"])
        features == [FromSql(tables["features"]) EXCEPT !.rows = Limit(@, FeaturesLimit)]
        raises == \/ fail.at = "read"
                  \/ ~tables["train"].exists
                  \/ ~tables["stores"].exists
                  \/ ~tables["features"].exists
                  \/ ToDatetimeRaises(train)
                  \/ ToDatetimeRaises(features)
    IN IF connect_db(exists, fail) /\ ~raises
       THEN [train |-> ToDatetime(train), stores |-> stores,
             features |-> ToDatetime(features), is_real_data |-> TRUE]
       ELSE SampleData

\* the sidebar of main: Records, Stores, Departments
Sidebar(train) ==
    [records |-> CountRows(train.rows),
     stores |-> Cardinality(Distinct(train.rows, "Store")),
     departments |-> Cardinality(Distinct(train.rows, "Dept"))]

\* show_home_page: the Total Sales and Total Records metrics
show_home_page(train) ==
    [total_sales |-> SumSales(train.rows), total_records |-> CountRows(train.rows)]

\* train.merge(stores, on='Store'): every train row paired with every stores
\* row of the same Store; a train row whose Store is not in stores is dropped
RECURSIVE MergeFrom(_, _, _, _)
MergeFrom(trows, srows, lo, hi) ==
    IF lo > hi THEN <<>>
    ELSE IF lo = hi
    THEN LET r == trows[lo]
             m == RowsWith(srows, "Store", r.Store)
         IN [i \in 1..Len(m) |->
               [Store |-> r.Store, Type |-> m[i].Type, Size |-> m[i].Size,
                Weekly_Sales |-> r.Weekly_Sales, n |-> r.n * m[i].n]]
    ELSE MergeFrom(trows, srows, lo, (lo + hi) \div 2)
         \o MergeFrom(trows, srows, (lo + hi) \div 2 + 1, hi)

Merge(trows, srows) == MergeFrom(trows, srows, 1, Len(trows))

\* the (Store, Type, Size) keys in the order groupby sorts them
KeyLess(a, b) ==
    \/ a[1] < b[1]
    \/ a[1] = b[1] /\ a[2] < b[2]
    \/ a[1] = b[1] /\ a[2] = b[2] /\ a[3] < b[3]

RECURSIVE SortKeys(_)
SortKeys(K) ==
    IF K = {} THEN <<>>
    ELSE LET m == CHOOSE k \in K : \A j \in K \ {k} : KeyLess(k, j)
         IN <<m>> \o SortKeys(K \ {m})

\* show_store_performance: store_performance, one row per (Store, Type,
\* Size) of the merged table, by Total_Sales descending
show_store_performance(train, stores) ==
    LET merged == Merge(train.rows, stores.rows)
        keys == SortKeys({<<merged[i].Store, merged[i].Type, merged[i].Size>> :
                            i \in 1..Len(merged)})
        groups == [i \in 1..Len(keys) |->
            LET g == SelectSeq(merged, LAMBDA r :
                        <<r.Store, r.Type, r.Size>> = keys[i])
            IN [Store |-> keys[i][1], Type |-> keys[i][2], Size |-> keys[i][3],
                total_sales |-> Round2(SumSales(g)),
                Record_Count |-> CountRows(g)]]
    IN OrderByTotalDesc(groups)

\* show_department_analysis: dept_performance, one row per Dept of train, by
\* Total_Sales descending
show_department_analysis(train) ==
    LET keys == Ascending(Distinct(train.rows, "Dept"))
        groups == [i \in 1..Len(keys) |->
            LET g == RowsWith(train.rows, "Dept", keys[i])
            IN [Dept |-> keys[i],
                total_sales |-> Round2(SumSales(g)),
                Record_Count |-> CountRows(g),
                Store_Count |-> Cardinality(Distinct(g, "Store"))]]
    IN OrderByTotalDesc(groups)

(* Query texts.  A text is the sequence of its words; Blank stands for
   white space between or around them. *)
Blank == " "

\* str.strip()
RECURSIVE Strip(_)
Strip(text) ==
    IF text = <<>> THEN <<>>
    ELSE IF Head(text) = Blank THEN Strip(Tail(text))
    ELSE IF text[Len(text)] = Blank THEN Strip(SubSeq(text, 1, Len(text) - 1))
    ELSE text

\* the text query_options holds under a name, and the schema query
QueryText(name) == <<name>>
SchemaQuery == <<"SELECT", "name,", "sql", "FROM", "sqlite_master">>

\* pd.read_sql_query(text, conn) on the store: the result, or that it
\* raised, and the store afterwards.  A statement that returns no rows is
\* executed before pandas raises for the missing result set; DROP TABLE is
\* committed at once, the rows DELETE removed come back when the connection
\* is discarded without a commit.
Sqlite(text, store) ==
    LET s == SelectSeq(text, LAMBDA w : w # Blank)
        same(r) == [err |-> r.err, rows |-> r.rows, db |-> store.db, idx |-> store.idx]
    IN IF Len(s) = 1 /\ s[1] \in CatalogNames THEN same(Catalog(s[1], store.db))
       ELSE IF s = SchemaQuery
       THEN same(QueryRows(SelectSeq(CsvTables, LAMBDA t : store.db[t].exists)))
       ELSE IF Len(s) = 4 /\ SubSeq(s, 1, 3) = <<"SELECT", "*", "FROM">> /\ s[4] \in TableNames
       THEN IF store.db[s[4]].exists THEN same(QueryRows(store.db[s[4]].rows))
            ELSE same(QueryError)
       ELSE IF Len(s) = 3 /\ SubSeq(s, 1, 2) = <<"DROP", "TABLE">> /\ s[3] \in TableNames
                 /\ store.db[s[3]].exists
       THEN [err |-> TRUE, rows |-> <<>>,
             db |-> [store.db EXCEPT ![s[3]] = NoTable],
             idx |-> store.idx \ IndexesOn(s[3])]
       ELSE same(QueryError)

NoQuery == [executed |-> FALSE, text |-> <<>>, result |-> QueryError, message |-> "none"]

\* a run_sql_query that hands only SELECT statements to the store
run_sql_query_ReadOnly(query, store, data_loaded) ==
    LET s == SelectSeq(query, LAMBDA w : w # Blank)
        r == Sqlite(query, store)
    IN IF ~data_loaded
       THEN [out |-> [NoQuery EXCEPT !.message = "warning"], db |-> store.db, idx |-> store.idx]
       ELSE IF s # <<>> /\ s[1] \notin {"SELECT"} \cup CatalogNames
       THEN [out |-> [NoQuery EXCEPT !.message = "error"], db |-> store.db, idx |-> store.idx]
       ELSE [out |-> [executed |-> TRUE, text |-> query,
                      result |-> [err |-> r.err, rows |-> IF r.err THEN <<>> ELSE r.rows],
                      message |-> IF r.err THEN "error" ELSE "none"],
             db |-> r.db, idx |-> r.idx]

\* SalesAnalysisApp.run_sql_query: nothing is run without data_loaded; the
\* text is handed to the store as it is; a query that raises gives None
\* and an error message
run_sql_query(query, store, data_loaded) ==
    IF ~data_loaded
    THEN [out |-> [NoQuery EXCEPT !.message = "warning"], db |-> store.db, idx |-> store.idx]
    ELSE LET r == Sqlite(query, store)
         IN [out |-> [executed |-> TRUE, text |-> query,
                      result |-> [err |-> r.err, rows |-> IF r.err THEN <<>> ELSE r.rows],
                      message |-> IF r.err THEN "error" ELSE "none"],
             db |-> r.db, idx |-> r.idx]

\* a show_sql_interface whose Execute button runs whatever the box holds
show_sql_interface_NoBlankCheck(ui, store, data_loaded) ==
    LET idle == [out |-> NoQuery, db |-> store.db, idx |-> store.idx]
    IN IF ~data_loaded THEN [idle EXCEPT !.out.message = "warning"]
       ELSE IF ui.button = "selected"
       THEN run_sql_query(QueryText(ui.query), store, data_loaded)
       ELSE IF ui.button = "execute" THEN run_sql_query(ui.custom, store, data_loaded)
       ELSE IF ui.button = "schema" THEN run_sql_query(SchemaQuery, store, data_loaded)
       ELSE idle

\* show_sql_interface: returns at once without data_loaded; runs the
\* selected catalog query, the custom text unless it is blank, or the schema
\* query, as the button pressed says
show_sql_interface(ui, store, data_loaded) ==
    LET idle == [out |-> NoQuery, db |-> store.db, idx |-> store.idx]
    IN IF ~data_loaded THEN [idle EXCEPT !.out.message = "warning"]
       ELSE IF ui.button = "selected"
       THEN run_sql_query(QueryText(ui.query), store, data_loaded)
       ELSE IF ui.button = "execute"
       THEN IF Strip(ui.custom) # <<>> THEN run_sql_query(ui.custom, store, data_loaded)
            ELSE [idle EXCEPT !.out.message = "rejected"]
       ELSE IF ui.button = "schema" THEN run_sql_query(SchemaQuery, store, data_loaded)
       ELSE idle

\* show_data_upload: "Process Uploaded Files" over the uploaded streams.
\* The store, whether the database file exists, the message shown and what
\* became of the connection.
show_data_upload(ui, store, exists, fail) ==
    LET files == ui.files
        idle == [db |-> store.db, idx |-> store.idx, dbExists |-> exists,
                 status |-> "idle", conn |-> "none", wrote |-> {}]
        s1 == IF fail.at = "train"
              THEN FailedWrite(store, "train", ReadCsv(files["train"]), fail.how)
              ELSE ReplaceTable(store, "train", ReadCsv(files["train"]))
        s2 == IF fail.at = "stores"
              THEN FailedWrite(s1, "stores", ReadCsv(files["stores"]), fail.how)
              ELSE ReplaceTable(s1, "stores", ReadCsv(files["stores"]))
        s3 == IF fail.at = "features"
              THEN FailedWrite(s2, "features", ReadCsv(files["features"]), fail.how)
              ELSE ReplaceTable(s2, "features", ReadCsv(files["features"]))
        Raised(s, wrote) == [db |-> s.db, idx |-> s.idx, dbExists |-> TRUE,
                             status |-> "error", conn |-> "leaked", wrote |-> wrote]
    IN IF files["train"].st = "absent" \/ files["stores"].st = "absent" \/ ~ui.process
       THEN idle
       ELSE IF ReadCsvRaises(files["train"]) \/ ReadCsvRaises(files["stores"])
       THEN [idle EXCEPT !.status = "error"]
       ELSE IF fail.at = "connect" THEN [idle EXCEPT !.status = "error"]
       ELSE IF fail.at = "train" THEN Raised(s1, {})
       ELSE IF fail.at = "stores" THEN Raised(s2, {"train"})
       ELSE IF files["features"].st = "absent"
       THEN [db |-> s2.db, idx |-> s2.idx, dbExists |-> TRUE,
             status |-> "success", conn |-> "closed", wrote |-> {"train", "stores"}]
       ELSE IF ReadCsvRaises(files["features"]) THEN Raised(s2, {"train", "stores"})
       ELSE IF fail.at = "features" THEN Raised(s3, {"train", "stores"})
       ELSE [db |-> s3.db, idx |-> s3.idx, dbExists |-> TRUE,
             status |-> "success", conn |-> "closed",
             wrote |-> {"train", "stores", "features"}]

Pages == {"home", "charts", "stores", "departments", "sql", "upload"}

NoUi == [button |-> "none", query |-> "none", custom |-> <<>>, files |-> NoFiles,
         process |-> FALSE]

\* One execution of the page script (main of app.py) with the page chosen
\* in the sidebar and the widgets' values ui; fail: the operation that
\* raises, if any.  app_conn: the connection connect_db opened, which no
\* code of the app closes.
AppMain(page, ui, fail) ==
    LET data == load_data(db, dbExists, fail)
        data_loaded == connect_db(dbExists, fail)
        up == show_data_upload(ui, [db |-> db, idx |-> idx], dbExists, fail)
        sql == show_sql_interface(ui, [db |-> db, idx |-> idx], data_loaded)
        report == [op |-> "app", page |-> page, ui |-> ui,
                   is_real_data |-> data.is_real_data, data_loaded |-> data_loaded,
                   sidebar |-> Sidebar(data.train),
                   home |-> <<>>, stores |-> <<>>, departments |-> <<>>,
                   sql |-> NoQuery, upload |-> "idle", conn |-> "none", wrote |-> {},
                   app_conn |-> IF data_loaded THEN "open" ELSE "none",
                   fail |-> fail,
                   raised |-> \/ (page = "sql" /\ sql.out.message = "raised")
                              \/ (page = "upload" /\ up.status = "raised"),
                   again |-> page = "upload" /\ BuildOk(last) /\ BuildInput(last) = ui.files]
    IN IF page = "upload"
       THEN /\ db' = up.db
            /\ idx' = up.idx
            /\ dbExists' = up.dbExists
            /\ last' = [report EXCEPT !.upload = up.status, !.conn = up.conn,
                                      !.wrote = up.wrote]
       ELSE IF page = "sql"
       THEN /\ db' = sql.db
            /\ idx' = sql.idx
            /\ UNCHANGED dbExists
            /\ last' = [report EXCEPT !.sql = sql.out]
       ELSE /\ UNCHANGED <<db, idx, dbExists>>
            /\ last' = CASE page = "home" ->
                              [report EXCEPT !.home = <<show_home_page(data.train)>>]
                         [] page = "stores" ->
                              [report EXCEPT !.stores =
                                  show_store_performance(data.train, data.stores)]
                         [] page = "departments" ->
                              [report EXCEPT !.departments =
                                  show_department_analysis(data.train)]
                         [] OTHER -> report

----------------------------------------------------------------------------
(* The files a run may find *)

MaxRowsP == 2    \* the train files of Spec hold 1..MaxRowsP rows

ColsOf(t) ==
    CASE t = "train" -> TrainCols
      [] t = "test" -> TestCols
      [] t = "features" -> FeaturesCols
      [] OTHER -> StoresCols

\* the i-th row of a file of table t that follows the expected schema
RowOf(t, i) ==
    CASE t = "train" -> [Store |-> i, Dept |-> 1, Date |-> 20100205,
                         Weekly_Sales |-> 1000 * i, IsHoliday |-> 0, n |-> 1]
      [] t = "test" -> [Store |-> i, Dept |-> 1, Date |-> 20121102, IsHoliday |-> 0, n |-> 1]
      [] t = "features" -> [Store |-> i, Date |-> 20100205, n |-> 1]
      [] OTHER -> [Store |-> i, Type |-> 1, Size |-> 151315, n |-> 1]

\* a well-formed file of table t with k rows and ISO dates
FrameOf(t, k) ==
    [cols |-> ColsOf(t),
     fmt |-> IF "Date" \in ColsOf(t) THEN "iso" ELSE "none",
     rows |-> [i \in 1..k |-> RowOf(t, i)]]

FilesOf(t) ==
    {AbsentFile, MalformedFile} \cup
    {CsvFile(FrameOf(t, k)) : k \in IF t = "train" THEN 1..MaxRowsP ELSE {1}}

\* the data directory of a loader run
LoaderFiles ==
    {[train |-> a, test |-> b, features |-> c, stores |-> d] :
        a \in FilesOf("train"), b \in FilesOf("test"),
        c \in FilesOf("features"), d \in FilesOf("stores")}

\* the three uploaders of the Data Upload page
UploadFiles ==
    {[train |-> a, test |-> AbsentFile, features |-> c, stores |-> d] :
        a \in FilesOf("train"), c \in FilesOf("features"), d \in FilesOf("stores")}

----------------------------------------------------------------------------
(* Specification of the ingestion pipeline *)

Init ==
    /\ db = [t \in TableNames |-> NoTable]
    /\ idx = {}
    /\ dbExists = FALSE
    /\ last = [op |-> "init"]

\* python data_loader.py
RunLoader == \E files \in LoaderFiles : LoaderMain(files, TRUE, NoFail)

\* python data_loader.py when the database cannot be opened
RunLoaderNoDb == LoaderMain(NoFiles, FALSE, NoFail)

\* the Data Upload page with the uploaded files, "Process Uploaded Files"
\* pressed when the page shows it
UploadUi(files) ==
    [NoUi EXCEPT !.files = files,
                 !.process = files["train"].st # "absent" /\ files["stores"].st # "absent"]

RunUpload == \E files \in UploadFiles : AppMain("upload", UploadUi(files), NoFail)

Next == RunLoader \/ RunLoaderNoDb \/ RunUpload

Spec == Init /\ [][Next]_vars

----------------------------------------------------------------------------
(* Specification of the query surface: a first ingestion into a fresh     *)
(* store, by either path, then page executions over it                    *)

MaxLenQ == 2       \* the train files of SpecQ hold up to MaxLenQ runs of rows
BulkRun == 10001   \* the length of a long run of rows, past LIMIT 10000

\* the sales rows the train files of SpecQ are made of: two stores, two
\* departments, two months, an amount that is not whole cents, a return, a
\* long run
QRow(i) ==
    CASE i = 1 -> [Store |-> 1, Dept |-> 1, Date |-> 20100205, Weekly_Sales |-> 1004,
                   IsHoliday |-> 0, n |-> 1]
      [] i = 2 -> [Store |-> 1, Dept |-> 2, Date |-> 20100212, Weekly_Sales |-> 2500,
                   IsHoliday |-> 1, n |-> 1]
      [] i = 3 -> [Store |-> 2, Dept |-> 1, Date |-> 20100305, Weekly_Sales |-> 0 - 500,
                   IsHoliday |-> 0, n |-> 1]
      [] OTHER -> [Store |-> 2, Dept |-> 2, Date |-> 20100205, Weekly_Sales |-> 20,
                   IsHoliday |-> 0, n |-> BulkRun]

QRows == {QRow(i) : i \in 1..4}

\* one row for each of TopStoresLimit + 1 stores
ManyStoreRows ==
    [i \in 1..(TopStoresLimit + 1) |->
        [Store |-> i, Dept |-> 1, Date |-> 20100205, Weekly_Sales |-> 100 * i,
         IsHoliday |-> 0, n |-> 1]]

QTrainRows ==
    UNION {[1..k -> QRows] : k \in 0..MaxLenQ} \cup {ManyStoreRows}

QTrainFiles ==
    {CsvFile([cols |-> TrainCols, fmt |-> f, rows |-> r]) :
        f \in {"iso", "mdy", "bad"}, r \in QTrainRows}

\* stores.csv listing store 1, stores 1 and 2, or store 1 twice
QStoresFiles ==
    {CsvFile(FrameOf("stores", k)) : k \in 1..2} \cup
    {CsvFile([FrameOf("stores", 1) EXCEPT !.rows = <<[RowOf("stores", 1) EXCEPT !.n = 2]>>])}
QFeaturesFiles == {AbsentFile, CsvFile(FrameOf("features", 1))}

QFiles ==
    {[train |-> a, test |-> AbsentFile, features |-> c, stores |-> d] :
        a \in QTrainFiles, c \in QFeaturesFiles, d \in QStoresFiles}

\* python data_loader.py with no database yet
FirstLoad ==
    /\ ~dbExists
    /\ \E files \in QFiles : LoaderMain(files, TRUE, NoFail)

\* "Process Uploaded Files" with no database yet
FirstUpload ==
    /\ ~dbExists
    /\ \E files \in QFiles : AppMain("upload", UploadUi(files), NoFail)

\* a dashboard page
ViewPage == \E page \in {"home", "charts", "stores", "departments"} : AppMain(page, NoUi, NoFail)

\* the SQL Query Interface with "Run Selected Query" pressed, or not
ViewSql ==
    \/ AppMain("sql", NoUi, NoFail)
    \/ \E q \in CatalogNames :
          AppMain("sql", [NoUi EXCEPT !.button = "selected", !.query = q], NoFail)

NextQ == FirstLoad \/ FirstUpload \/ ViewPage \/ ViewSql

SpecQ == Init /\ [][NextQ]_vars

----------------------------------------------------------------------------
(* Specification of one run, with the failures it can meet, over a store    *)
(* that an earlier build left                                               *)

NoStore == [db |-> [t \in TableNames |-> NoTable], idx |-> {}]

\* the files of the earlier build: one-row files, each present or not, and
\* a train.csv whose Date cells are no dates
SeedFiles ==
    {[train |-> a, test |-> AbsentFile, features |-> c, stores |-> d] :
        a \in {AbsentFile, CsvFile(FrameOf("train", 1)),
               CsvFile([FrameOf("train", 1) EXCEPT !.fmt = "bad"])},
        c \in {AbsentFile, CsvFile(FrameOf("features", 1))},
        d \in {AbsentFile, CsvFile(FrameOf("stores", 1))}}

\* the store a loader run over files leaves when started without a database
LoaderStore(files) ==
    LET created == create_tables(TRUE, NoStore, load_csv_files(files).datasets, NoFail)
    IN [db |-> created.db, idx |-> create_indexes(created.db, created.idx).idx,
        dbExists |-> TRUE]

\* the store "Process Uploaded Files" leaves when started without a database
UploadStore(files) ==
    LET up == show_data_upload([NoUi EXCEPT !.files = files, !.process = TRUE],
                               NoStore, FALSE, NoFail)
    IN [db |-> up.db, idx |-> up.idx, dbExists |-> up.dbExists]

SeedStores ==
    {LoaderStore(f) : f \in SeedFiles} \cup {UploadStore(f) : f \in SeedFiles}
    \cup {[db |-> NoStore.db, idx |-> {}, dbExists |-> FALSE]}

InitF ==
    /\ \E s \in SeedStores :
          /\ db = s.db
          /\ idx = s.idx
          /\ dbExists = s.dbExists
    /\ last = [op |-> "init"]

\* the files of the run: two-row files, each absent, malformed or well-formed
RunFiles ==
    {[train |-> a, test |-> AbsentFile, features |-> c, stores |-> d] :
        a \in {AbsentFile, MalformedFile, CsvFile(FrameOf("train", 2))},
        c \in {AbsentFile, MalformedFile, CsvFile(FrameOf("features", 2))},
        d \in {AbsentFile, MalformedFile, CsvFile(FrameOf("stores", 2))}}

\* the write that raises, and what it leaves of the table
WriteFails == [at : {"train", "features", "stores"}, how : FailureOutcomes]

\* sqlite3.connect raises; a read of load_data raises
ConnectFails == [at |-> "connect", how |-> "unchanged"]
ReadFails == [at |-> "read", how |-> "unchanged"]

\* what is typed into the custom query box
CustomTexts ==
    {<<>>, <<Blank>>, <<Blank, Blank>>,
     <<"SELECT", "*", "FROM", "train">>,
     <<Blank, "SELECT", "*", "FROM", "stores", Blank>>,
     <<"DROP", "TABLE", "train">>,
     <<Blank, "DROP", "TABLE", "features">>,
     <<"DELETE", "FROM", "train">>,
     <<"SELEC", "*", "FROM", "train">>}

\* python data_loader.py
LoadOver ==
    /\ last.op = "init"
    /\ \E files \in RunFiles, connOk \in BOOLEAN, fail \in {NoFail} \cup WriteFails :
          LoaderMain(files, connOk, fail)

\* create_tables called on a loader whose connect_db returned False
CreateTablesUnconnected ==
    /\ last.op = "init"
    /\ \E files \in RunFiles :
          LET datasets == load_csv_files(files).datasets
              r == create_tables(FALSE, [db |-> db, idx |-> idx], datasets, NoFail)
          IN /\ db' = r.db
             /\ idx' = r.idx
             /\ UNCHANGED dbExists
             /\ last' = [op |-> "create_tables", files |-> files, connected |-> FALSE,
                         loaded |-> DatasetNames(datasets), ok |-> r.ok]

\* the Data Upload page with "Process Uploaded Files" pressed
UploadOver ==
    /\ last.op = "init"
    /\ \E files \in RunFiles, fail \in {NoFail, ConnectFails} \cup WriteFails :
          AppMain("upload", UploadUi(files), fail)

\* a dashboard page
PageOver ==
    /\ last.op = "init"
    /\ \E page \in {"home", "charts", "stores", "departments"},
          fail \in {NoFail, ConnectFails, ReadFails} :
          AppMain(page, NoUi, fail)

\* the widgets of the SQL Query Interface: no button pressed, or one of
\* the three
SqlUis ==
    {NoUi, [NoUi EXCEPT !.button = "schema"]}
    \cup {[NoUi EXCEPT !.button = "selected", !.query = q] : q \in CatalogNames}
    \cup {[NoUi EXCEPT !.button = "execute", !.custom = text] : text \in CustomTexts}

\* the SQL Query Interface
SqlOver ==
    /\ last.op = "init"
    /\ \E ui \in SqlUis, fail \in {NoFail, ConnectFails, ReadFails} :
          AppMain("sql", ui, fail)

NextF == LoadOver \/ CreateTablesUnconnected \/ UploadOver \/ PageOver \/ SqlOver

SpecF == InitF /\ [][NextF]_vars

----------------------------------------------------------------------------
(* setup.py *)

\* the directories create_directories makes
Directories == {"data", "sql", "notebooks", "visualizations", "reports"}

\* check_python_version on sys.version_info
check_python_version(version) == version.major >= 3 /\ version.minor >= 8

\* create_directories: mkdir(exist_ok=True) for each directory
create_directories(have) == have \cup Directories

\* install_requirements: pip is run when requirements.txt exists, and its
\* return code decides
install_requirements(reqExists, pipOk) == reqExists /\ pipOk

\* One run of setup.py under the interpreter version, with what it finds
\* of requirements.txt and how pip ends; dirs: the directories that exist
SetupMain(version, reqExists, pipOk) ==
    /\ last' = IF ~check_python_version(version)
               THEN \* sys.exit(1)
                    [op |-> "setup", version |-> version, before |-> last.dirs,
                     compatible |-> FALSE, dirs |-> last.dirs,
                     installed |-> FALSE, completed |-> FALSE, exit |-> 1]
               ELSE [op |-> "setup", version |-> version, before |-> last.dirs,
                     compatible |-> TRUE, dirs |-> create_directories(last.dirs),
                     installed |-> install_requirements(reqExists, pipOk),
                     completed |-> TRUE, exit |-> 0]
    /\ UNCHANGED <<db, idx, dbExists>>

(* Specification of the project setup *)

MaxMajor == 4
MaxMinor == 12

\* the interpreter versions (major, minor) a run may meet
Versions == [major : 2..MaxMajor, minor : 0..MaxMinor]

\* no database yet; any of the project directories may exist already
InitS ==
    /\ db = [t \in TableNames |-> NoTable]
    /\ idx = {}
    /\ dbExists = FALSE
    /\ \E have \in SUBSET Directories : last = [op |-> "init", dirs |-> have]

RunSetup ==
    \E version \in Versions, reqExists \in BOOLEAN, pipOk \in BOOLEAN :
        SetupMain(version, reqExists, pipOk)

NextS == RunSetup

SpecS == InitS /\ [][NextS]_vars

----------------------------------------------------------------------------
(* Properties of the ingestion pipeline *)

\* the expected tables whose file the run found unreadable: read_csv or the
\* Date conversion raised.  The upload page reads files only when both
\* train.csv and stores.csv are uploaded.
Unreadable(l) ==
    IF l.op = "loader" /\ l.connected THEN l.errors
    ELSE IF l.op = "app" /\ l.page = "upload" /\ l.ui.process
            /\ l.ui.files["train"].st # "absent" /\ l.ui.files["stores"].st # "absent"
    THEN {t \in {"train", "stores", "features"} : l.ui.files[t].st = "malformed"}
    ELSE {}

\* the run reported a failure for the file of table t
Reported(l, t) ==
    \/ l.op = "loader" /\ t \in l.errors
    \/ l.op = "app" /\ l.upload = "error"

\* C1: a store build repeated on the same input tables leaves every table it
\* writes with the row count it had after the first build, which is the row
\* count of the input table: a build replaces rows and never appends.
C1_IdempotentReplace ==
    [][(last'.op \in {"loader", "app"} /\ last'.again /\ BuildOk(last'))
         => \A t \in Written(last') :
              /\ CountRows(db'[t].rows) = CountRows(db[t].rows)
              /\ CountRows(db'[t].rows) = CountRows(BuildInput(last')[t].df.rows)]_vars

\* C1 witness: a successful build that repeated the build before it and
\* wrote a table with rows
C1_Witness ==
    /\ last.op \in {"loader", "app"}
    /\ last.again
    /\ BuildOk(last)
    /\ \E t \in Written(last) : CountRows(db[t].rows) > 0

\* C2 as stated: a run that meets a malformed file reports the failure and
\* leaves every table that was in the store with its previous contents.
C2_AllTablesUntouched ==
    [][(last'.op \in {"loader", "app"} /\ Unreadable(last') # {})
         => /\ \A t \in Unreadable(last') : Reported(last', t)
            /\ \A t \in TableNames : db[t].exists => db'[t] = db[t]]_vars

\* C2 amended: a run that meets a malformed file reports the failure and
\* leaves the table of that file with its previous contents.
C2_MalformedTableUntouched ==
    [][(last'.op \in {"loader", "app"} /\ Unreadable(last') # {})
         => \A t \in Unreadable(last') : Reported(last', t) /\ db'[t] = db[t]]_vars

\* C2 witness: a run met a malformed file whose table was loaded earlier, and
\* the table still has its rows
C2_Witness ==
    /\ last.op \in {"loader", "app"}
    /\ \E t \in Unreadable(last) : db[t].exists /\ db[t].rows # <<>>

\* a file the run can read: it parses, and on the loader's path its dates do
Readable(l, t) ==
    LET f == BuildInput(l)[t]
    IN /\ f.st = "ok"
       /\ l.op = "loader" /\ "Date" \in f.df.cols => ~ToDatetimeRaises(f.df)

\* C3 as stated: whatever files are absent or fail to parse, every readable
\* file is ingested in the same run: load_csv_files returns it, the upload
\* page writes it.
C3_ReadableFilesIngested ==
    /\ (last.op = "loader" /\ last.connected)
          => \A t \in TableNames : Readable(last, t) => t \in last.loaded
    /\ (last.op = "app" /\ last.page = "upload")
          => \A t \in {"train", "stores", "features"} :
                Readable(last, t) => t \in last.wrote

\* the indexes of section 4.2 on table t
ListedIndexes(t) == IndexesOn(t) \ {"idx_stores_type"}

\* C4 as stated: after create_tables and create_indexes the train indexes
\* exist whenever train was written and the features indexes whenever
\* features was written.
C4_IndexesAfterBuild ==
    (last.op = "loader" /\ last.created = "ok")
       => \A t \in {"train", "features"} : t \in last.loaded => ListedIndexes(t) \subseteq idx

\* C5 as stated: an upload that replaces a table leaves the table's indexes
\* in place.
C5_UploadKeepsIndexes ==
    [][(last'.op = "app" /\ last'.page = "upload")
         => \A t \in last'.wrote : (ListedIndexes(t) \cap idx) \subseteq idx']_vars

\* C10 as stated: on every ingestion path a written table with a Date column
\* holds parsed dates, and a table without one is stored as it was read.
C10_DatesParsedOnIngest ==
    last.op \in {"loader", "app"}
       => \A t \in Written(last) :
            /\ "Date" \in db[t].cols => db[t].fmt = "ts"
            /\ "Date" \notin db[t].cols => db[t] = ToSql(BuildInput(last)[t].df)

----------------------------------------------------------------------------
(* Properties of the aggregates *)

\* the page showed the result of catalog query q
SqlRan(q) ==
    /\ last.op = "app"
    /\ last.page = "sql"
    /\ last.ui.query = q
    /\ last.sql.executed
    /\ ~last.sql.result.err

\* the stored sales rows
Sales == db["train"].rows

Min(a, b) == IF a < b THEN a ELSE b

\* the dashboard shows the store's data
ShowsStore == last.op = "app" /\ last.is_real_data

\* the loader run validated the train table it had just written
Validated == last.op = "loader" /\ last.validation.printed # <<>> /\ "train" \in last.loaded

\* C6 as stated: with N rows in the train table, the Basic Overview query,
\* the loader's validation query and the dashboard's Records and Total
\* Records metrics all say N.
C6_TotalRecordsEverywhere ==
    /\ SqlRan("Basic Overview")
          => last.sql.result.rows[1].total_records = CountRows(Sales)
    /\ Validated
          => last.validation.printed[1] = Val(CountRows(last.files["train"].df.rows))
    /\ ShowsStore => last.sidebar.records = CountRows(Sales)
    /\ (ShowsStore /\ last.page = "home")
          => last.home[1].total_records = CountRows(Sales)

\* C6 amended: with N rows in the train table, the Basic Overview query and
\* the loader's validation query say N; the dashboard's Records and Total
\* Records metrics say min(N, 10000).
C6_TotalRecords ==
    /\ SqlRan("Basic Overview")
          => last.sql.result.rows[1].total_records = CountRows(Sales)
    /\ Validated
          => last.validation.printed[1] = Val(CountRows(last.files["train"].df.rows))
    /\ ShowsStore => last.sidebar.records = Min(CountRows(Sales), TrainLimit)
    /\ (ShowsStore /\ last.page = "home")
          => last.home[1].total_records = Min(CountRows(Sales), TrainLimit)

\* C6 witness: the home page shows a train table of more than 10000 rows
C6_Witness ==
    /\ ShowsStore
    /\ last.page = "home"
    /\ CountRows(Sales) > TrainLimit
    /\ last.home[1].total_records = TrainLimit

\* the sum of the total_sales column of a result
RECURSIVE SumTotals(_)
SumTotals(rows) ==
    IF rows = <<>> THEN 0 ELSE Head(rows).total_sales + SumTotals(Tail(rows))

\* every amount is a whole number of cents
WholeCents(rows) == \A i \in 1..Len(rows) : rows[i].Weekly_Sales % 10 = 0

\* every store that has sales has exactly one row in the stores table
EveryStoreListedOnce ==
    \A s \in Distinct(Sales, "Store") : CountRows(RowsWith(db["stores"].rows, "Store", s)) = 1

\* C7 as stated: the per-store totals of the Top 10 Stores query, and those
\* of the Store Performance page, add up to the total over all sales rows.
C7_StoreTotalsAddUp ==
    /\ SqlRan("Top 10 Stores") => SumTotals(last.sql.result.rows) = SumSales(Sales)
    /\ (ShowsStore /\ last.page = "stores") => SumTotals(last.stores) = SumSales(Sales)

\* C7 amended: for amounts in whole cents, the per-store totals of the Top
\* 10 Stores query add up to the total over all sales rows when the table
\* has at most 10 stores, and those of the Store Performance page do when
\* the table has at most 10000 rows and every store with sales has exactly
\* one row in the stores table.
C7_StoreTotalsAddUpWithinLimits ==
    /\ (/\ SqlRan("Top 10 Stores")
        /\ WholeCents(Sales)
        /\ Cardinality(Distinct(Sales, "Store")) <= TopStoresLimit)
          => SumTotals(last.sql.result.rows) = SumSales(Sales)
    /\ (/\ ShowsStore
        /\ last.page = "stores"
        /\ WholeCents(Sales)
        /\ CountRows(Sales) <= TrainLimit
        /\ EveryStoreListedOnce)
          => SumTotals(last.stores) = SumSales(Sales)

\* C7 witness: the Top 10 Stores query returned the totals of two stores
\* with amounts in whole cents
C7_Witness ==
    /\ SqlRan("Top 10 Stores")
    /\ WholeCents(Sales)
    /\ Len(last.sql.result.rows) = 2
    /\ SumSales(Sales) # 0

\* the departments of the sales rows the SpecQ files are made of
DeptIds == {r.Dept : r \in QRows}

\* department d has a row among rows
HasDept(rows, d) == \E j \in 1..Len(rows) : rows[j].Dept = d

\* C8: a department without a row in the sales table is not in the result
\* of the Department Performance query, and a department without a row in
\* the table the Department Analysis page aggregates is not in its result.
C8_NoPhantomGroups ==
    /\ SqlRan("Department Performance")
          => \A i \in 1..Len(last.sql.result.rows) :
                /\ HasDept(Sales, last.sql.result.rows[i].Dept)
                /\ last.sql.result.rows[i].records > 0
    /\ (last.op = "app" /\ last.page = "departments")
          => \A i \in 1..Len(last.departments) :
                /\ HasDept(load_data(db, dbExists, NoFail).train.rows, last.departments[i].Dept)
                /\ last.is_real_data => HasDept(Sales, last.departments[i].Dept)
                /\ last.departments[i].Record_Count > 0

\* C8 witness: the Department Performance query returned rows over a sales
\* table in which some department has no row
C8_Witness ==
    /\ SqlRan("Department Performance")
    /\ last.sql.result.rows # <<>>
    /\ \E d \in DeptIds : ~HasDept(Sales, d)

\* the calendar month yyyymm of a date
MonthOf(date) == date \div 100

\* C9 as stated: the Monthly Sales Trend query returns one row per calendar
\* month that has a sales row, in ascending month order, each with the
\* exact sum of Weekly_Sales over the rows of that month.
C9_OneRowPerCalendarMonth ==
    SqlRan("Monthly Sales Trend")
       => LET rows == last.sql.result.rows
          IN /\ Len(rows) = Cardinality({MonthOf(Sales[j].Date) : j \in 1..Len(Sales)})
             /\ \A i \in 1..Len(rows) :
                   /\ rows[i].month_year # Null
                   /\ \E j \in 1..Len(Sales) : Val(MonthOf(Sales[j].Date)) = rows[i].month_year
                   /\ rows[i].monthly_sales =
                         SumSales(SelectSeq(Sales,
                             LAMBDA r : Val(MonthOf(r.Date)) = rows[i].month_year))
             /\ \A i \in 1..Len(rows) : \A j \in 1..Len(rows) :
                   i < j => rows[i].month_year[1] < rows[j].month_year[1]

----------------------------------------------------------------------------
(* Properties of one run over an earlier store *)

EntityTables == {"train", "stores", "features"}

\* the step was a "Process Uploaded Files" run that reported success
UploadSucceeds == last'.op = "app" /\ last'.page = "upload" /\ last'.upload = "success"

\* the rows of the file the run was given for table t, none without a file
FileRows(l, t) ==
    IF l.op \in {"loader", "app"} /\ BuildInput(l)[t].st = "ok"
    THEN BuildInput(l)[t].df.rows ELSE <<>>

SqlPage == last'.op = "app" /\ last'.page = "sql"

\* the words of a query text
Words(text) == SelectSeq(text, LAMBDA w : w # Blank)

\* C12: with the database available, the text handed to the store is the
\* text given, character for character: the catalog text for the selected
\* query, the custom box as typed (white space around it included) for
\* Execute; no statement kind is held back, so DROP TABLE typed in the
\* custom box removes the table and its indexes from the store.
C12_QueryPassedVerbatim ==
    [][(SqlPage /\ last'.data_loaded) =>
          /\ last'.ui.button = "selected" =>
                last'.sql.executed /\ last'.sql.text = QueryText(last'.ui.query)
          /\ (last'.ui.button = "execute" /\ Strip(last'.ui.custom) # <<>>) =>
                last'.sql.executed /\ last'.sql.text = last'.ui.custom
          /\ last'.ui.button = "schema" =>
                last'.sql.executed /\ last'.sql.text = SchemaQuery
          /\ \A t \in TableNames :
                (last'.ui.button = "execute"
                    /\ Words(last'.ui.custom) = <<"DROP", "TABLE", t>> /\ db[t].exists) =>
                   /\ last'.sql.executed
                   /\ db'[t] = NoTable
                   /\ idx' = idx \ IndexesOn(t)]_vars

\* a DROP TABLE typed with white space before it was run, the table is gone
\* and the other tables of the earlier build are still there
C12_Witness ==
    /\ last.op = "app" /\ last.page = "sql" /\ last.ui.button = "execute"
    /\ last.ui.custom = <<Blank, "DROP", "TABLE", "features">>
    /\ last.sql.executed /\ last.sql.text = last.ui.custom
    /\ ~db["features"].exists /\ db["train"].exists /\ db["stores"].exists

\* C17: without data_loaded nothing is run and a warning is shown; a query
\* that raises gives no result and an error message, and nothing leaves
\* the page script as an exception; a custom text that is empty or white
\* space only is refused with an error and not run; a result table is
\* returned only by a query that ran and did not raise.
C17_QueryOutcomes ==
    [][SqlPage =>
          /\ ~last'.data_loaded =>
                /\ ~last'.sql.executed /\ last'.sql.message = "warning"
                /\ last'.sql.result = QueryError
                /\ db' = db /\ idx' = idx
          /\ (last'.sql.executed /\ last'.sql.result.err) =>
                last'.sql.message = "error" /\ last'.sql.result.rows = <<>>
          /\ (last'.data_loaded /\ last'.ui.button = "execute"
                 /\ Strip(last'.ui.custom) = <<>>) =>
                /\ ~last'.sql.executed /\ last'.sql.message = "rejected"
                /\ last'.sql.result = QueryError
                /\ db' = db /\ idx' = idx
          /\ ~last'.sql.result.err =>
                last'.sql.executed /\ last'.sql.message = "none"
          /\ ~last'.raised]_vars

\* white space only in the custom box, Execute pressed, database available
C17_Witness ==
    /\ last.op = "app" /\ last.page = "sql" /\ last.data_loaded
    /\ last.ui.button = "execute" /\ last.ui.custom = <<Blank, Blank>>
    /\ ~last.sql.executed /\ last.sql.message = "rejected"

(* What the dashboard shows, and the connections of a run *)

\* the three reads of load_data and the two Date conversions succeed on
\* these tables
ReadsSucceed(tables) ==
    /\ \A t \in EntityTables : tables[t].exists
    /\ \A t \in {"train", "features"} :
          \/ tables[t].fmt \in {"iso", "mdy", "ts"}
          \/ tables[t].fmt = "bad" /\ tables[t].rows = <<>>

\* C13: load_data gives the data read from the database, and True, exactly
\* when the database file exists, connecting and the three reads do not
\* raise, the three tables exist and both Date conversions succeed; in
\* every other case it gives the generated sample data and False.  The
\* sidebar counts are those of the data it returned.
C13_SampleDataFallback ==
    [][last'.op = "app" =>
          LET real == /\ dbExists
                      /\ last'.fail.at \notin {"connect", "read"}
                      /\ ReadsSucceed(db)
          IN /\ last'.is_real_data = real
             /\ real => last'.sidebar =
                           Sidebar([rows |-> Limit(db["train"].rows, TrainLimit)])
             /\ ~real => last'.sidebar = Sidebar(SampleTrain)
             /\ (last'.page = "home" /\ ~real) =>
                   last'.home = <<show_home_page(SampleTrain)>>]_vars

\* the database file is there and opens, but it has no features table: the
\* dashboard shows the sample data
C13_Witness ==
    /\ last.op = "app" /\ last.page = "home" /\ last.fail = NoFail
    /\ dbExists /\ db["train"].exists /\ db["stores"].exists /\ ~db["features"].exists
    /\ ~last.is_real_data
    /\ last.sidebar = Sidebar(SampleTrain)

\* C18: after load_data, data_loaded is True exactly when is_real_data is
\* True: the SQL Query Interface is open exactly when the dashboard shows
\* data read from the database.
C18_SqlEnabledIffRealData ==
    last.op = "app" => (last.data_loaded <=> last.is_real_data)

\* C15: every connection a run opened is closed when the run ends: the
\* loader's, the one SalesAnalysisApp.connect_db opens in a page
\* execution, and the one the upload step opens.
C15_ConnectionsClosed ==
    /\ (last.op = "loader" /\ last.connected) => last.closed
    /\ last.op = "app" => last.app_conn # "open" /\ last.conn # "leaked"

(* Failures of a loader run *)

\* the files of a loader run that load_csv_files can read
LoaderReadable(l) ==
    {t \in TableNames : l.files[t].st = "ok" /\ l.files[t].df.fmt # "bad"}

\* the run met a failure of a file read, a write or a query
MetFailure(l) ==
    \/ l.errors # {}
    \/ l.created = "failed"
    \/ l.indexed = "failed"
    \/ l.queried /\ ~l.validation.ok

\* C14 as stated: whatever failed, the loader run goes on to its end and
\* the app's page script is not left by an exception.
C14_NoFailureFatal ==
    /\ (last.op = "loader" /\ last.connected /\ MetFailure(last)) =>
          last.completed /\ last.exit = 0
    /\ last.op = "app" => ~last.raised

\* C14: a file that cannot be read is reported and skipped, and the other
\* files are loaded; a failed index or validation query is reported and
\* the run goes on to exit status 0.  A failed connect, no readable file at
\* all, or a failed table write is reported too, but then main ends the run
\* with exit status 1 (after closing the connection it had opened) without
\* creating indexes or running queries.  In the app every failure is
\* caught and shown as a message; the page script is never left by an
\* exception.
C14_FailuresCaughtOrExit ==
    /\ (last.op = "loader" /\ ~last.connected) =>
          last.exit = 1 /\ last.created = "skipped" /\ ~last.queried
    /\ (last.op = "loader" /\ last.connected) =>
          /\ last.errors = {t \in TableNames : last.files[t].st # "absent"} \ LoaderReadable(last)
          /\ last.created # "skipped" => last.loaded = LoaderReadable(last)
          /\ last.created = "skipped" <=> LoaderReadable(last) = {}
          /\ last.created = "failed" <=> last.fail.at \in LoaderReadable(last)
          /\ last.created = "ok" <=> (last.exit = 0 /\ last.completed /\ last.queried)
          /\ last.created # "ok" =>
                /\ last.exit = 1 /\ ~last.completed /\ ~last.queried
                /\ last.indexed = "skipped" /\ last.validation = NoValidation
          /\ last.closed
    /\ last.op = "app" =>
          /\ ~last.raised
          /\ (last.page = "upload" /\ last.upload \notin {"idle", "success"}) =>
                last.upload = "error"
          /\ (last.page = "sql" /\ last.sql.executed /\ last.sql.result.err) =>
                last.sql.message = "error"
          /\ last.fail.at \in {"connect", "read"} => ~last.is_real_data

\* a run in which one file could not be read, the others were loaded, and
\* a table write failed: exit status 1, connection closed
C14_Witness ==
    /\ last.op = "loader" /\ last.connected
    /\ last.errors # {} /\ last.loaded # {}
    /\ last.created = "failed" /\ last.exit = 1 /\ last.closed

\* C16: the loader runs its validation and table-info queries only after
\* create_tables returned True, every loaded table then holding the rows of
\* its file; the app runs a query against the store only when connect_db,
\* called by load_data in the same page execution, opened the database.
C16_LoadBeforeQuery ==
    /\ (last.op = "loader" /\ last.queried) =>
          /\ last.created = "ok"
          /\ last.fail.at \notin last.loaded
          /\ \A t \in last.loaded : db[t].exists /\ db[t].rows = FileRows(last, t)
    /\ (last.op = "loader" /\ (last.validation # NoValidation \/ last.info # {})) =>
          last.queried
    /\ (last.op = "app" /\ last.sql.executed) =>
          last.data_loaded /\ dbExists /\ last.fail.at # "connect"

\* a loader run that wrote its three files and printed the five validation
\* results
C16_Witness ==
    /\ last.op = "loader" /\ last.queried
    /\ last.loaded = EntityTables
    /\ last.validation.ok /\ Len(last.validation.printed) = 5

\* C19: a loader run changes no table whose file it did not load: a table
\* whose file was missing or unreadable holds what it held before; and
\* create_tables without a connection returns False and changes nothing.
C19_BuildFrame ==
    [][/\ last'.op = "loader" =>
             /\ \A t \in TableNames \ last'.loaded : db'[t] = db[t]
             /\ \A t \in TableNames : last'.files[t].st # "ok" => db'[t] = db[t]
       /\ last'.op = "create_tables" =>
             ~last'.ok /\ db' = db /\ idx' = idx]_vars

\* train and stores were rewritten, features.csv was unreadable and the
\* features table of the earlier build is still there
C19_Witness ==
    /\ last.op = "loader" /\ last.created = "ok"
    /\ last.loaded = {"train", "stores"}
    /\ last.files["features"].st = "malformed"
    /\ db["features"].rows # <<>>
    /\ db["train"].rows = FileRows(last, "train")

\* the table load_csv_files makes of a file it read
AsLoaded(df) == IF "Date" \in df.cols THEN ToDatetime(df) ELSE df

\* the tables of the run in the order create_tables writes them
WriteOrder(l) == SelectSeq(CsvTables, LAMBDA t : t \in l.loaded)

\* C20: create_tables returns True only when every table of the mapping was
\* written; when a write fails it returns False, the tables before the
\* failing one in iteration order hold the rows of their files, the tables
\* after it hold what they held before the run, and nothing is undone.
C20_NotAllOrNothing ==
    [][(last'.op = "loader" /\ last'.created # "skipped") =>
          LET order == WriteOrder(last')
          IN /\ last'.created = "ok" =>
                   \A t \in last'.loaded :
                      db'[t].exists /\ db'[t].rows = FileRows(last', t)
             /\ last'.created = "failed" =>
                   \E k \in 1..Len(order) :
                      /\ order[k] = last'.fail.at
                      /\ \A i \in 1..(k - 1) :
                            db'[order[i]].exists
                               /\ db'[order[i]].rows = FileRows(last', order[i])
                      /\ \A i \in (k + 1)..Len(order) : db'[order[i]] = db[order[i]]
                      /\ db'[order[k]] = AfterFailedWrite(db[order[k]],
                                             AsLoaded(last'.files[order[k]].df),
                                             last'.fail.how)]_vars

\* the write of features failed: train holds the new rows, stores the rows
\* of the earlier build
C20_Witness ==
    /\ last.op = "loader" /\ last.created = "failed"
    /\ last.loaded = EntityTables /\ last.fail.at = "features"
    /\ db["train"].rows = FileRows(last, "train")
    /\ db["stores"].rows # <<>>
    /\ db["stores"].rows # FileRows(last, "stores")

(* How a run ends *)

\* C21: a loader run prints its completion report and ends with status 0
\* exactly when the connect succeeded, at least one file was loaded and no
\* table write failed; in every other case it exits with status 1.  What
\* create_indexes, run_basic_queries and get_table_info returned does not
\* matter: the run completes also when indexes or validation failed.
C21_LoaderOutcome ==
    last.op = "loader" =>
       LET built == /\ last.connected
                    /\ LoaderReadable(last) # {}
                    /\ last.fail.at \notin LoaderReadable(last)
       IN /\ (last.completed /\ last.exit = 0) <=> built
          /\ ~built => (~last.completed /\ last.exit = 1)
          /\ built => last.indexed \in {"ok", "failed"}

\* only stores.csv was loaded into a new database: the indexes on train
\* could not be created, the validation queries failed, and the run
\* completed with status 0
C21_Witness ==
    /\ last.op = "loader" /\ last.completed /\ last.exit = 0
    /\ last.indexed = "failed" /\ ~last.validation.ok
    /\ last.loaded = {"stores"}

\* C22: check_python_version is True exactly for the versions 3.8 and
\* later (major > 3, or major = 3 and minor >= 8); setup.main exits with
\* status 1, no directory created, exactly when it is False.
C22_VersionCheck ==
    last.op = "setup" =>
       /\ last.compatible <=>
             (\/ last.version.major > 3
              \/ last.version.major = 3 /\ last.version.minor >= 8)
       /\ ~last.compatible <=> (last.exit = 1 /\ ~last.completed)
       /\ ~last.compatible => last.dirs = last.before
       /\ last.compatible => last.dirs = last.before \cup Directories

============================================================================
